---- MODULE Spec2Model ----
(***************************************************************************)
(* A model of pysaml2's transport binding layer:                           *)
(*   saml2/httpbase.py  - HTTPBase: cookie jar, send(), send_using_soap()  *)
(*   saml2/pack.py      - make_soap_enveloped_saml_thingy(),               *)
(*                        parse_soap_enveloped_saml()                      *)
(*                                                                         *)
(* Python strings are sequences of one-character strings, so that slices,  *)
(* startswith/endswith, find/rfind and replace are computed character by   *)
(* character.  Cookie names are opaque dictionary keys and stay TLA+       *)
(* strings.  Python's None is the sequence <<"None">>, which no character  *)
(* sequence equals.                                                        *)
(***************************************************************************)
EXTENDS Integers, Sequences, FiniteSets, TLC

VARIABLES
    jar,        \* HTTPBase.cookiejar: the set of stored cookielib.Cookie records
    sec,        \* HTTPBase.sec: TRUE when a signer is configured
    now,        \* the wall clock (epoch seconds); the code never reads it
    last,       \* observation of the most recent HTTPBase call
    codec       \* observation of the most recent call of a pack.py function

vars == <<jar, sec, now, last, codec>>

---------------------------------------------------------------------------
(* Python string primitives *)

None == <<"None">>

\* Python truthiness of a str-or-None value
Truthy(x) == x # <<>> /\ x # None

\* index normalisation of a Python slice bound for a sequence of length n
Norm(i, n) ==
    IF i < 0 THEN (IF n + i < 0 THEN 0 ELSE n + i)
    ELSE (IF i > n THEN n ELSE i)

\* s[lo:hi]
PySlice(s, lo, hi) ==
    LET a == Norm(lo, Len(s))
        b == Norm(hi, Len(s))
    IN  IF a >= b THEN <<>> ELSE SubSeq(s, a + 1, b)

StartsWith(s, p) == Len(s) >= Len(p) /\ SubSeq(s, 1, Len(p)) = p

EndsWith(s, p) == Len(s) >= Len(p) /\ SubSeq(s, Len(s) - Len(p) + 1, Len(s)) = p

\* s.find(p): the 0-based index of the first occurrence, -1 when there is none
Find(s, p) ==
    LET hits == {i \in 1..(Len(s) - Len(p) + 1) : SubSeq(s, i, i + Len(p) - 1) = p}
    IN  IF hits = {} THEN -1
        ELSE (CHOOSE i \in hits : \A k \in hits : i <= k) - 1

\* s.rfind(p, 0, end): the 0-based index of the last occurrence inside s[0:end]
RFind(s, p, end) ==
    LET e    == Norm(end, Len(s))
        hits == {i \in 1..(e - Len(p) + 1) : SubSeq(s, i, i + Len(p) - 1) = p}
    IN  IF hits = {} THEN -1
        ELSE (CHOOSE i \in hits : \A k \in hits : i >= k) - 1

\* s.replace(old, new): every non-overlapping occurrence, left to right
RECURSIVE Replace(_, _, _)
Replace(s, old, new) ==
    LET i == Find(s, old)
    IN  IF old = <<>> \/ i < 0 THEN s
        ELSE SubSeq(s, 1, i) \o new
             \o Replace(SubSeq(s, i + Len(old) + 1, Len(s)), old, new)

Contains(s, p) == Find(s, p) >= 0

---------------------------------------------------------------------------
(* time.strptime / time.mktime as _since_epoch uses them.  Fields are the   *)
(* zero-padded widths HTTP dates carry; month names are the C locale's;     *)
(* mktime is taken in UTC.                                                  *)

DigitVal(c) ==
    CASE c = "0" -> 0 [] c = "1" -> 1 [] c = "2" -> 2 [] c = "3" -> 3
      [] c = "4" -> 4 [] c = "5" -> 5 [] c = "6" -> 6 [] c = "7" -> 7
      [] c = "8" -> 8 [] c = "9" -> 9 [] OTHER -> -1

AllDigits(s) == \A i \in 1..Len(s) : DigitVal(s[i]) >= 0

RECURSIVE Num(_)
Num(s) ==
    IF s = <<>> THEN 0
    ELSE 10 * Num(SubSeq(s, 1, Len(s) - 1)) + DigitVal(s[Len(s)])

MonthNo(s) ==
    CASE s = <<"J","a","n">> -> 1  [] s = <<"F","e","b">> -> 2
      [] s = <<"M","a","r">> -> 3  [] s = <<"A","p","r">> -> 4
      [] s = <<"M","a","y">> -> 5  [] s = <<"J","u","n">> -> 6
      [] s = <<"J","u","l">> -> 7  [] s = <<"A","u","g">> -> 8
      [] s = <<"S","e","p">> -> 9  [] s = <<"O","c","t">> -> 10
      [] s = <<"N","o","v">> -> 11 [] s = <<"D","e","c">> -> 12
      [] OTHER -> 0

IsLeap(y) == (y % 4 = 0 /\ y % 100 # 0) \/ y % 400 = 0

DaysInMonth(y, m) ==
    IF m = 2 THEN (IF IsLeap(y) THEN 29 ELSE 28)
    ELSE IF m \in {4, 6, 9, 11} THEN 30 ELSE 31

RECURSIVE DaysBeforeMonth(_, _)
DaysBeforeMonth(y, m) ==
    IF m <= 1 THEN 0 ELSE DaysBeforeMonth(y, m - 1) + DaysInMonth(y, m - 1)

LeapsBefore(y) == ((y - 1) \div 4) - ((y - 1) \div 100) + ((y - 1) \div 400)

DaysBeforeYear(y) == (y - 1970) * 365 + LeapsBefore(y) - LeapsBefore(1970)

\* %Y is four digits; %y is two digits, 69..99 -> 19xx and 00..68 -> 20xx
YearOf(yw, n) == IF yw = 4 THEN n ELSE IF n <= 68 THEN 2000 + n ELSE 1900 + n

\* the fixed-width layout "DD-Mon-<year> HH:MM:SS" with a year of yw digits
DateShape(cdate, yw) ==
    /\ Len(cdate) = 16 + yw
    /\ cdate[3] = "-" /\ cdate[7] = "-" /\ cdate[8 + yw] = " "
    /\ cdate[11 + yw] = ":" /\ cdate[14 + yw] = ":"
    /\ AllDigits(SubSeq(cdate, 1, 2)) /\ AllDigits(SubSeq(cdate, 8, 7 + yw))
    /\ AllDigits(SubSeq(cdate, 9 + yw, 10 + yw))
    /\ AllDigits(SubSeq(cdate, 12 + yw, 13 + yw))
    /\ AllDigits(SubSeq(cdate, 15 + yw, 16 + yw))
    /\ MonthNo(SubSeq(cdate, 4, 6)) > 0

DateFields(cdate, yw) ==
    [y  |-> YearOf(yw, Num(SubSeq(cdate, 8, 7 + yw))),
     mo |-> MonthNo(SubSeq(cdate, 4, 6)),
     d  |-> Num(SubSeq(cdate, 1, 2)),
     H  |-> Num(SubSeq(cdate, 9 + yw, 10 + yw)),
     M  |-> Num(SubSeq(cdate, 12 + yw, 13 + yw)),
     S  |-> Num(SubSeq(cdate, 15 + yw, 16 + yw))]

\* the field ranges strptime enforces; ok = FALSE is its ValueError
DateChecked(t) ==
    IF t.d >= 1 /\ t.d <= DaysInMonth(t.y, t.mo) /\ t.H <= 23 /\ t.M <= 59 /\ t.S <= 61
    THEN [ok |-> TRUE, t |-> t]
    ELSE [ok |-> FALSE, t |-> <<>>]

\* time.strptime(cdate, "%d-%b-%Y %H:%M:%S") for yw = 4 and
\* time.strptime(cdate, "%d-%b-%y %H:%M:%S") for yw = 2
Strptime(cdate, yw) ==
    IF DateShape(cdate, yw) THEN DateChecked(DateFields(cdate, yw))
    ELSE [ok |-> FALSE, t |-> <<>>]

\* int(time.mktime(t))
Mktime(t) ==
    (DaysBeforeYear(t.y) + DaysBeforeMonth(t.y, t.mo) + (t.d - 1)) * 86400
    + t.H * 3600 + t.M * 60 + t.S

\* lines 50-52: the second pattern, whose ValueError is not caught
SecondPattern(t2) ==
    IF t2.ok THEN [exc |-> "none", v |-> Mktime(t2.t)]
    ELSE [exc |-> "ValueError", v |-> 0]

\* lines 48-52: the first pattern, and on its ValueError the second
FirstPattern(t4, c) ==
    IF t4.ok THEN [exc |-> "none", v |-> Mktime(t4.t)]
    ELSE SecondPattern(Strptime(c, 2))

\* line 47: cdate[5:-4]
DateBody(cdate) == PySlice(cdate, 5, -4)

\* _since_epoch(cdate)
since_epoch(cdate) == FirstPattern(Strptime(DateBody(cdate), 4), DateBody(cdate))

---------------------------------------------------------------------------
(* The cookie adapter: ATTRS, PAIRS and HTTPBase.set_cookie *)

\* "expires": None is the empty sequence, an epoch second e is <<e>>
NoExpiry == <<>>

ATTRS ==
    [version |-> None, name |-> "", value |-> None,
     port |-> None, port_specified |-> FALSE,
     domain |-> <<>>, domain_specified |-> FALSE, domain_initial_dot |-> FALSE,
     path |-> <<>>, path_specified |-> FALSE,
     secure |-> FALSE, expires |-> NoExpiry, discard |-> TRUE,
     comment |-> None, comment_url |-> None, rest |-> <<>>, rfc2109 |-> TRUE]

\* A Cookie.Morsel: coded_value and the reserved keys the model varies (a key
\* that is not sent holds ""; comment, secure, version and httponly stay "").
\* "max-age" is a string when SimpleCookie parsed it from a header, and may be
\* the integer 0 when the caller built the morsel: int0 tells the two apart.
Morsel(v, dom, pth, exp, ma, int0) ==
    [coded_value |-> v, domain |-> dom, path |-> pth, expires |-> exp,
     max_age |-> [int0 |-> int0, s |-> ma]]

\* `if morsel["max-age"]:`
MaxAgeTruthy(morsel) == ~morsel.max_age.int0 /\ morsel.max_age.s # <<>>

\* `morsel["max-age"] is 0`: identity with the integer 0, which no string has
MaxAgeIs0(morsel) == morsel.max_age.int0

\* lines 88-92: surrounding double quotes are dropped from coded_value
StripQuotes(v) ==
    IF StartsWith(v, <<"\"">>) /\ EndsWith(v, <<"\"">>) THEN PySlice(v, 1, -1) ELSE v

\* lines 98-102 for a plain attribute: copied when its value is truthy
CopyPlain(std, morsel) ==
    [std EXCEPT !.domain = IF Truthy(morsel.domain) THEN morsel.domain ELSE @,
                !.path   = IF Truthy(morsel.path) THEN morsel.path ELSE @]

\* the outcome of one _since_epoch call stored into std_attr["expires"]
StoreExpiry(std, e) ==
    IF e.exc # "none" THEN [exc |-> e.exc, std |-> std]
    ELSE [exc |-> "none", std |-> [std EXCEPT !.expires = <<e.v>>]]

\* lines 103-105: a truthy "max-age" goes through _since_epoch as well
CopyMaxAge(c, morsel) ==
    IF c.exc = "none" /\ MaxAgeTruthy(morsel)
    THEN StoreExpiry(c.std, since_epoch(morsel.max_age.s))
    ELSE c

\* lines 99-100: a truthy "expires" goes through _since_epoch
CopyExpires(std, morsel) ==
    IF Truthy(morsel.expires) THEN StoreExpiry(std, since_epoch(morsel.expires))
    ELSE [exc |-> "none", std |-> std]

\* lines 96-105: copy the attributes that have values; a ValueError of
\* _since_epoch leaves the loop
CopyAttrs(std, morsel) == CopyMaxAge(CopyExpires(CopyPlain(std, morsel), morsel), morsel)

\* DeriveFlags without lines 111-112
DeriveFlags_NoInitialDot(std) ==
    [std EXCEPT
        !.port_specified     = IF Truthy(std.port) THEN TRUE ELSE @,
        !.domain_specified   = IF Truthy(std.domain) THEN TRUE ELSE @,
        !.path_specified     = IF Truthy(std.path) THEN TRUE ELSE @]

\* lines 107-112: the PAIRS loop and domain_initial_dot
DeriveFlags(std) ==
    [std EXCEPT
        !.port_specified     = IF Truthy(std.port) THEN TRUE ELSE @,
        !.domain_specified   = IF Truthy(std.domain) THEN TRUE ELSE @,
        !.path_specified     = IF Truthy(std.path) THEN TRUE ELSE @,
        !.domain_initial_dot =
            IF Truthy(std.domain) /\ StartsWith(std.domain, <<".">>) THEN TRUE ELSE @]

\* lines 86-94: the defaults, the name, the unquoted value, version 0
StdStart(cookie_name, morsel) ==
    [ATTRS EXCEPT !.name = cookie_name,
                  !.value = StripQuotes(morsel.coded_value),
                  !.version = 0]

Flagged(c) == IF c.exc # "none" THEN c ELSE [exc |-> "none", std |-> DeriveFlags(c.std)]

\* lines 86-112: std_attr for one (cookie_name, morsel)
StdAttr(cookie_name, morsel) == Flagged(CopyAttrs(StdStart(cookie_name, morsel), morsel))

\* the jar's key: cookielib stores _cookies[domain][path][name]
Key(c) == <<c.domain, c.path, c.name>>

Keys(j) == {Key(c) : c \in j}

\* cookielib.CookieJar.set_cookie: c[domain][path][name] = cookie
JarSetCookie(j, cookie) == {c \in j : Key(c) # Key(cookie)} \cup {cookie}

\* cookielib.CookieJar.clear(domain, path, name): `del` of a missing entry is
\* a KeyError; ValueError arises only for a None domain or path
JarClear(j, domain, path, name) ==
    IF <<domain, path, name>> \in Keys(j)
    THEN [exc |-> "none", jar |-> {c \in j : Key(c) # <<domain, path, name>>}]
    ELSE [exc |-> "KeyError", jar |-> j]

\* lines 115-120: `except ValueError: pass` around clear() lets a KeyError through
Cleared(j, r) == IF r.exc = "ValueError" THEN [exc |-> "none", jar |-> j] ELSE r

\* lines 114-124: remove on `max-age is 0`, else build the Cookie and store it
Store(j, morsel, a) ==
    IF a.exc # "none" THEN [exc |-> a.exc, jar |-> j]
    ELSE IF MaxAgeIs0(morsel)
    THEN Cleared(j, JarClear(j, a.std.domain, a.std.path, a.std.name))
    ELSE [exc |-> "none", jar |-> JarSetCookie(j, a.std)]

\* lines 86-124: the body of set_cookie's loop for one cookie
IngestOne(j, cookie_name, morsel) == Store(j, morsel, StdAttr(cookie_name, morsel))

\* HTTPBase.set_cookie(kaka, request): kaka is the sequence of
\* <<cookie_name, morsel>> in the dictionary's iteration order; an exception
\* ends the loop with the cookies before it already stored
RECURSIVE set_cookie(_, _)
IngestRest(r, rest) == IF r.exc # "none" THEN r ELSE set_cookie(r.jar, rest)

set_cookie(j, kaka) ==
    IF kaka = <<>> THEN [exc |-> "none", jar |-> j]
    ELSE IngestRest(IngestOne(j, kaka[1][1], kaka[1][2]), Tail(kaka))

\* HTTPBase._cookies(): cookie_dict[cookie.name] = cookie.value over the jar;
\* with several records of one name the last one iterated wins, and the
\* iteration order of the nested dictionaries is not fixed
CookieDicts(j) ==
    {d \in [{c.name : c \in j} -> {c.value : c \in j}] :
        \A n \in DOMAIN d : \E c \in j : c.name = n /\ c.value = d[n]}

---------------------------------------------------------------------------
(* HTTPBase.send *)

\* lines 131-132: the cookies keyword is passed only when the jar is
\* non-empty, and then holds one of the dictionaries _cookies() can build
CookieArgs(j) ==
    IF j = {} THEN {[present |-> FALSE, dict |-> <<>>]}
    ELSE {[present |-> TRUE, dict |-> d] : d \in CookieDicts(j)}

\* the HTTP request one call of requests.request issues
Request(j, method, data) ==
    [ev |-> "http", method |-> method, text |-> data, cookies |-> j # {}]

\* lines 139-145: only AttributeError is caught around set_cookie
Received(r, outcome, req) ==
    [exc |-> IF r.exc = "AttributeError" THEN "none" ELSE r.exc,
     jar |-> r.jar, ret |-> outcome, log |-> <<req>>]

\* send with the request issued a second time after a connection failure
send_Retrying(j, method, data, outcome) ==
    IF outcome.kind = "ConnectionError"
    THEN [exc |-> "ConnectionError", jar |-> j, ret |-> outcome,
          log |-> <<Request(j, method, data), Request(j, method, data)>>]
    ELSE Received(set_cookie(j, outcome.kaka), outcome, Request(j, method, data))

\* HTTPBase.send(url, method, data=...): one requests.request call; `outcome`
\* is what the HTTP collaborator does (raise requests.ConnectionError, or
\* return a response with its truth value and its parsed Set-Cookie header;
\* a response without the header carries the empty kaka)
send(j, method, data, outcome) ==
    IF outcome.kind = "ConnectionError"
    THEN [exc |-> "ConnectionError", jar |-> j, ret |-> outcome,
          log |-> <<Request(j, method, data)>>]
    ELSE Received(set_cookie(j, outcome.kaka), outcome, Request(j, method, data))

---------------------------------------------------------------------------
(* The inputs the model draws from *)

MaxBatch == 2
MaxTicks == 1

Names == {"sid", "tok"}

DotDomain == <<".","e","x","a","m","p","l","e",".","c","o","m">>
RootPath == <<"/">>
Date4 == <<"T","h","u",","," ","0","1","-","J","a","n","-","2","0","3","2"," ","0","0",":","0","0",":","0","0"," ","G","M","T">>
Date2 == <<"W","e","d",","," ","0","6","-","J","u","n","-","1","2"," ","0","1",":","3","4",":","3","4"," ","G","M","T">>
NoDate == <<"t","o","m","o","r","r","o","w">>

\* name=a; Domain=.example.com; Path=/
Plain == Morsel(<<"a">>, DotDomain, RootPath, <<>>, <<>>, FALSE)
\* name="b"; expires=Thu, 01-Jan-2032 00:00:00 GMT
Quoted == Morsel(<<"\"","b","\"">>, <<>>, <<>>, Date4, <<>>, FALSE)
\* name=x; Domain=.example.com; Path=/; expires=Wed, 06-Jun-12 01:34:34 GMT
Stale == Morsel(<<"x">>, DotDomain, RootPath, Date2, <<>>, FALSE)
\* name=a; Domain=.example.com; Path=/; expires=tomorrow
BadDate == Morsel(<<"a">>, DotDomain, RootPath, NoDate, <<>>, FALSE)
\* name=a; Domain=.example.com; Path=/; Max-Age=0
Zero == Morsel(<<"a">>, DotDomain, RootPath, <<>>, <<"0">>, FALSE)
\* a morsel the caller built with morsel["max-age"] = 0
Int0 == Morsel(<<"a">>, DotDomain, RootPath, <<>>, <<>>, TRUE)

\* what SimpleCookie can parse out of a Set-Cookie header
WireMorsels == {Plain, Quoted, Stale, BadDate, Zero}
\* what a caller of set_cookie can pass
CallerMorsels == WireMorsels \cup {Int0}

\* a SimpleCookie is a dictionary: one morsel per name, any iteration order
Kakas(M) ==
    UNION {{k \in [1..n -> Names \X M] :
               \A a, b \in 1..n : a # b => k[a][1] # k[b][1]} : n \in 0..MaxBatch}

\* a response: its truth value (requests' Response.ok) and its Set-Cookie header
Response(ok, kaka) == [kind |-> "response", ok |-> ok, kaka |-> kaka]

Failure == [kind |-> "ConnectionError", ok |-> FALSE, kaka |-> <<>>]

Clock(t) == 1600000000 + t * 200000000

---------------------------------------------------------------------------
(* The transport's state machine *)

NoCall ==
    [op |-> "init", kaka |-> <<>>, exc |-> "none",
     ret |-> [kind |-> "none"], log |-> <<>>,
     inner |-> "none", truthy |-> FALSE,
     request |-> "none", sign |-> FALSE, signer |-> FALSE, signer_ok |-> TRUE,
     unsigned |-> <<>>, signed |-> <<>>]

NoPack == [op |-> "init"]

Init ==
    /\ jar = {}
    /\ sec = FALSE
    /\ now = Clock(0)
    /\ last = NoCall
    /\ codec = NoPack

\* The fields of `last`: op, the call; kaka, the cookies handed to
\* set_cookie or carried by the response; exc, the exception that reached the
\* caller; ret, the value returned; log, the collaborator calls in order;
\* inner, the exception send() raised; truthy, the truth value of the response
\* send_using_soap tested; request, sign, signer, signer_ok, unsigned, signed:
\* the arguments of send_using_soap, self.sec at the call, whether the signer
\* returns, the envelope and the body that was posted.

\* what a call leaves in `jar` and `last`
Called(op, kaka, r) ==
    /\ jar' = r.jar
    /\ last' = [NoCall EXCEPT !.op = op, !.kaka = kaka, !.exc = r.exc,
                              !.ret = IF r.exc = "none" THEN r.ret ELSE [kind |-> "none"],
                              !.log = r.log, !.inner = r.exc]

NoReturn(r) == [exc |-> r.exc, jar |-> r.jar, ret |-> [kind |-> "none"], log |-> <<>>]

\* a caller hands set_cookie a SimpleCookie it built itself (the batches a
\* header can carry arrive through send)
SetCookieCall ==
    \E k \in Kakas(CallerMorsels) \ Kakas(WireMorsels) :
        /\ Called("set_cookie", k, NoReturn(set_cookie(jar, k)))
        /\ UNCHANGED <<sec, now, codec>>

\* send(url): a GET with no body
Send ==
    \E outcome \in {Response(TRUE, k) : k \in Kakas(WireMorsels)} \cup {Failure} :
        /\ Called("send", outcome.kaka, send(jar, "GET", None, outcome))
        /\ UNCHANGED <<sec, now, codec>>

\* time passes between calls
Tick ==
    /\ now < Clock(MaxTicks)
    /\ now' = now + (Clock(1) - Clock(0))
    /\ UNCHANGED <<jar, sec, last, codec>>

Next == SetCookieCall \/ Send \/ Tick

Spec == Init /\ [][Next]_vars

---------------------------------------------------------------------------
(* xml.etree.ElementTree 1.3 (the pure Python module pack.py falls back to):  *)
(* an element is [tag, children], its tag "{uri}local"; tostring() allots     *)
(* the prefix "ns%d" % len(namespaces) to each new namespace in document      *)
(* order and declares all of them on the root element, sorted by prefix.      *)

NAMESPACE == <<"h","t","t","p",":","/","/","s","c","h","e","m","a","s",".","x","m","l","s","o","a","p",".","o","r","g","/","s","o","a","p","/","e","n","v","e","l","o","p","e","/">>
DUMMY_NAMESPACE == <<"h","t","t","p",":","/","/","e","x","a","m","p","l","e",".","o","r","g","/">>
PREFIX == <<"<","?","x","m","l"," ","v","e","r","s","i","o","n","=","\"","1",".","0","\""," ","e","n","c","o","d","i","n","g","=","\"","U","T","F","-","8","\"","?",">">>

Element(uri, local, children) ==
    [tag |-> <<"{">> \o uri \o <<"}">> \o local, children |-> children]

\* tag[1:].rsplit("}", 1)
TagUri(tag) == SubSeq(tag, 2, Find(tag, <<"}">>))

TagLocal(tag) == SubSeq(tag, Find(tag, <<"}">>) + 2, Len(tag))

DigitChar(d) == <<"0","1","2","3","4","5","6","7","8","9">>[d + 1]

\* "%d" % n
RECURSIVE Decimal(_)
Decimal(n) == IF n < 10 THEN <<DigitChar(n)>> ELSE Decimal(n \div 10) \o <<DigitChar(n % 10)>>

\* the order of Python strings, for strings of digits
RECURSIVE DigitsLess(_, _)
DigitsLess(a, b) ==
    IF a = <<>> THEN b # <<>>
    ELSE IF b = <<>> THEN FALSE
    ELSE IF a[1] # b[1] THEN DigitVal(a[1]) < DigitVal(b[1])
    ELSE DigitsLess(Tail(a), Tail(b))

\* elem.iter(): the tags in document order
RECURSIVE IterTags(_)
RECURSIVE IterTagsAll(_)
IterTags(e) == <<e.tag>> \o IterTagsAll(e.children)

IterTagsAll(es) == IF es = <<>> THEN <<>> ELSE IterTags(es[1]) \o IterTagsAll(Tail(es))

\* _namespaces(): the namespace URIs in the order they get their prefix;
\* the k-th of them (from 0) gets "ns<k>"
RECURSIVE NsOrder(_, _)
NsOrder(tags, seen) ==
    IF tags = <<>> THEN seen
    ELSE NsOrder(Tail(tags),
                 IF \E i \in 1..Len(seen) : seen[i] = TagUri(tags[1])
                 THEN seen ELSE Append(seen, TagUri(tags[1])))

NsPrefix(order, uri) ==
    <<"n","s">> \o Decimal((CHOOSE i \in 1..Len(order) : order[i] = uri) - 1)

QName(order, tag) == NsPrefix(order, TagUri(tag)) \o <<":">> \o TagLocal(tag)

\* sorted(namespaces.items(), key=lambda x: x[1]): the indices by prefix
RECURSIVE ByPrefix(_)
FirstByPrefix(S) == CHOOSE k \in S : \A m \in S : m = k \/ DigitsLess(Decimal(k), Decimal(m))

ByPrefix(S) ==
    IF S = {} THEN <<>> ELSE <<FirstByPrefix(S)>> \o ByPrefix(S \ {FirstByPrefix(S)})

\* ' xmlns:%s="%s"' for each namespace
RECURSIVE XmlnsItems(_, _)
XmlnsItems(order, idx) ==
    IF idx = <<>> THEN <<>>
    ELSE <<" ","x","m","l","n","s",":">> \o <<"n","s">> \o Decimal(idx[1]) \o <<"=","\"">>
         \o order[idx[1] + 1] \o <<"\"">> \o XmlnsItems(order, Tail(idx))

\* _serialize_xml(): an element without children ends " />"
RECURSIVE SerializeXml(_, _, _)
RECURSIVE SerializeAll(_, _)
SerializeXml(e, order, decls) ==
    <<"<">> \o QName(order, e.tag) \o decls
    \o (IF e.children = <<>> THEN <<" ","/",">">>
        ELSE <<">">> \o SerializeAll(e.children, order)
             \o <<"<","/">> \o QName(order, e.tag) \o <<">">>)

SerializeAll(es, order) ==
    IF es = <<>> THEN <<>>
    ELSE SerializeXml(es[1], order, <<>>) \o SerializeAll(Tail(es), order)

Declared(e, order) ==
    SerializeXml(e, order, XmlnsItems(order, ByPrefix(0..(Len(order) - 1))))

\* ElementTree.tostring(envelope, encoding="UTF-8"): "UTF-8" is not "utf-8",
\* so the XML declaration is written first
tostring(e) == <<"<","?","x","m","l"," ","v","e","r","s","i","o","n","=","'","1",".","0","'"," ","e","n","c","o","d","i","n","g","=","'","U","T","F","-","8","'","?",">","\n">> \o Declared(e, NsOrder(IterTags(e), <<>>))

---------------------------------------------------------------------------
(* pack.make_soap_enveloped_saml_thingy *)

\* lines 135-140: the Header element when header_parts is non-empty
HeaderOf(header_parts) ==
    IF header_parts = <<>> THEN <<>>
    ELSE <<Element(NAMESPACE, <<"H","e","a","d","e","r">>, header_parts)>>

\* lines 132-144 and 148-150 or 160: the envelope around one Body child
EnvelopeOf(header_parts, child) ==
    Element(NAMESPACE, <<"E","n","v","e","l","o","p","e">>,
            HeaderOf(header_parts) \o <<Element(NAMESPACE, <<"B","o","d","y">>, <<child>>)>>)

\* line 156: "<%s:FuddleMuddle />" % (cut1[6:9],)
Cut2(cut1) == <<"<">> \o PySlice(cut1, 6, 9) \o <<":","F","u","d","d","l","e","M","u","d","d","l","e"," ","/",">">>

\* lines 157-158
Spliced(str, cut1, thingy) == Replace(Replace(str, cut1, <<>>), Cut2(cut1), thingy)

\* lines 153-155: i, j and cut1
Cut1(str, i) == PySlice(str, RFind(str, <<"x","m","l","n","s",":">>, i), i + Len(DUMMY_NAMESPACE) + 1)

\* lines 153-158
Splice(str, thingy) == Spliced(str, Cut1(str, Find(str, DUMMY_NAMESPACE)), thingy)

\* lines 146-158: thingy is a string
make_soap_text(thingy, header_parts) ==
    Splice(tostring(EnvelopeOf(header_parts,
                               Element(DUMMY_NAMESPACE, <<"F","u","d","d","l","e","M","u","d","d","l","e">>, <<>>))),
           Replace(thingy, PREFIX, <<>>))

\* lines 159-161: thingy is a message object that adds itself to the Body
make_soap_object(thingy, header_parts) == tostring(EnvelopeOf(header_parts, thingy))

---------------------------------------------------------------------------
(* pack.parse_soap_enveloped_saml(text, body_class, header_class)             *)
(* ElementTree.fromstring has already turned the text into elements; a        *)
(* sub-element carries `fits`: whether saml2.create_class_from_element_tree   *)
(* builds an instance from it (TRUE) or raises (FALSE).  A class is named by   *)
(* the tag "{c_namespace}c_tag" it stands for.                                *)

EnvelopeTag == Element(NAMESPACE, <<"E","n","v","e","l","o","p","e">>, <<>>).tag
BodyTag == Element(NAMESPACE, <<"B","o","d","y">>, <<>>).tag
HeaderTag == Element(NAMESPACE, <<"H","e","a","d","e","r">>, <<>>).tag

NoResult == [exc |-> "none", body |-> None, header |-> <<>>]

Raised(exc) == [exc |-> exc, body |-> None, header |-> <<>>]

\* lines 186-191: body is rebuilt from every sub-element of a Body in turn,
\* so the last one stays; a failing construction is "Wrong body type"
RECURSIVE BodySubs(_, _)
BodySubs(res, subs) ==
    IF subs = <<>> THEN res
    ELSE IF ~subs[1].fits THEN Raised("UnexpectedBodyType")
    ELSE BodySubs([res EXCEPT !.body = <<"built from", subs[1].tag>>], Tail(subs))

\* lines 198-203: the first class of header_class whose tag is the
\* sub-element's builds the entry header[sub.tag]; its failure is not caught
HeaderSub(res, sub, header_class) ==
    IF \A i \in 1..Len(header_class) : header_class[i] # sub.tag THEN res
    ELSE IF ~sub.fits THEN Raised("ConstructionError")
    ELSE [res EXCEPT !.header =
             [t \in (DOMAIN res.header) \cup {sub.tag} |->
                 IF t = sub.tag THEN <<"built from", sub.tag>> ELSE res.header[t]]]

RECURSIVE HeaderSubs(_, _, _)
HeaderSubs(res, subs, header_class) ==
    IF subs = <<>> \/ res.exc # "none" THEN res
    ELSE HeaderSubs(HeaderSub(res, subs[1], header_class), Tail(subs), header_class)

\* lines 185-203: one child of the envelope
Part(res, part, header_class) ==
    IF part.tag = BodyTag THEN BodySubs(res, part.children)
    ELSE IF part.tag = HeaderTag
    THEN (IF header_class = <<>> THEN Raised("UnexpectedHeader")
          ELSE HeaderSubs(res, part.children, header_class))
    ELSE res

\* lines 183-203: `for part in envelope`
RECURSIVE Parts(_, _, _)
Parts(res, parts, header_class) ==
    IF parts = <<>> \/ res.exc # "none" THEN res
    ELSE Parts(Part(res, parts[1], header_class), Tail(parts), header_class)

\* parse_soap_enveloped_saml: the assert on the root tag (AssertionError,
\* the MalformedEnvelope of the design), then the loop; header_class None
\* is the empty sequence
parse_soap_enveloped_saml(envelope, header_class) ==
    IF envelope.tag # EnvelopeTag THEN Raised("MalformedEnvelope")
    ELSE Parts(NoResult, envelope.children, header_class)

---------------------------------------------------------------------------
(* The codec's inputs and state machine *)

MaxHeaderParts == 9
MaxParts == 2
MaxSubs == 2

\* a pre-serialized message, alone and behind an XML declaration
Fragment == <<"<","s","a","m","l","p",":","A","u","t","h","n","R","e","q","u","e","s","t"," ","x","m","l","n","s",":","s","a","m","l","p","=","\"","u","r","n",":","s","a","m","l","p","\""," ","I","D","=","\"","i","d","1","\"","/",">">>
Texts == {Fragment, PREFIX \o Fragment}

\* a message object, as the element it adds to the Body
MessageElement == Element(<<"u","r","n",":","s","a","m","l","p">>, <<"A","u","t","h","n","R","e","q","u","e","s","t">>, <<>>)

\* n header parts, each an element of a namespace of its own
HeaderParts(n) == [i \in 1..n |-> Element(<<"u","r","n",":","h">> \o Decimal(i), <<"P","a","r","t">>, <<>>)]

ResponseTag == Element(<<"u","r","n",":","s","a","m","l","p">>, <<"R","e","s","p","o","n","s","e">>, <<>>).tag
KnownHeaderTag == Element(<<"u","r","n",":","e","c","p">>, <<"R","e","l","a","y","S","t","a","t","e">>, <<>>).tag
OtherHeaderTag == Element(<<"u","r","n",":","h">>, <<"P","a","r","t">>, <<>>).tag

Sub(tag, fits) == [tag |-> tag, fits |-> fits, children |-> <<>>]

SeqsUpTo(S, n) == UNION {[1..k -> S] : k \in 0..n}

BodyParts == {[tag |-> BodyTag, children |-> c] :
                 c \in SeqsUpTo({Sub(ResponseTag, TRUE), Sub(ResponseTag, FALSE)}, MaxSubs)}

HeaderElems == {[tag |-> HeaderTag, children |-> c] :
                   c \in SeqsUpTo({Sub(KnownHeaderTag, TRUE), Sub(OtherHeaderTag, TRUE)},
                                   MaxSubs)}

Envelopes ==
    {[tag |-> t, children |-> c] :
        t \in {EnvelopeTag, BodyTag},
        c \in SeqsUpTo(BodyParts \cup HeaderElems \cup {Sub(OtherHeaderTag, TRUE)}, MaxParts)}

InitPack ==
    /\ jar = {} /\ sec = FALSE /\ now = Clock(0) /\ last = NoCall
    /\ codec = NoPack

MakeSoapText ==
    \E thingy \in Texts, n \in 0..MaxHeaderParts :
        /\ codec' = [op |-> "text", thingy |-> thingy, parts |-> n,
                      out |-> make_soap_text(thingy, HeaderParts(n))]
        /\ UNCHANGED <<jar, sec, now, last>>

MakeSoapObject ==
    \E n \in 0..MaxHeaderParts :
        /\ codec' = [op |-> "object", thingy |-> MessageElement.tag, parts |-> n,
                      out |-> make_soap_object(MessageElement, HeaderParts(n))]
        /\ UNCHANGED <<jar, sec, now, last>>

ParseSoap ==
    \E envelope \in Envelopes, header_class \in {<<>>, <<KnownHeaderTag>>} :
        /\ codec' = [op |-> "parse", envelope |-> envelope, header_class |-> header_class,
                      res |-> parse_soap_enveloped_saml(envelope, header_class)]
        /\ UNCHANGED <<jar, sec, now, last>>

NextPack == MakeSoapText \/ MakeSoapObject \/ ParseSoap

SpecPack == InitPack /\ [][NextPack]_vars

---------------------------------------------------------------------------
(* HTTPBase.send_using_soap(request, destination, headers, sign)              *)

\* self.sec.sign_statement_using_xmlsec(soap_message, ...): the signed form
\* of the text, when the signer succeeds
SignedForm(text) == text \o <<"<","!","-","-","s","i","g","n","e","d","-","-",">">>

SignCall(text) == [ev |-> "sign", method |-> "xmlsec", text |-> text, cookies |-> FALSE]

\* line 193: the envelope of a message that is text, or a message object
TextEnvelope == make_soap_text(Fragment, <<>>)
ObjectEnvelope == make_soap_object(MessageElement, <<>>)
Enveloped(request) == IF request = "text" THEN TextEnvelope ELSE ObjectEnvelope

\* lines 209-213: a true response is parsed (parse_soap_enveloped_saml_response
\* returns its result or raises), a false one gives False
Answered(r, parse_ok) ==
    IF r.ret.ok
    THEN (IF parse_ok THEN [r EXCEPT !.ret = [kind |-> "parsed", of |-> r.ret]]
          ELSE [r EXCEPT !.exc = "ParseError", !.ret = [kind |-> "none"]])
    ELSE [r EXCEPT !.ret = [kind |-> "False"]]

\* Posted with `except Exception` answering False instead of None
Posted_AnswersFalse(r, parse_ok) ==
    IF r.exc # "none" THEN [r EXCEPT !.exc = "none", !.ret = [kind |-> "False"]]
    ELSE Answered(r, parse_ok)

\* lines 202-207: `except Exception` around send() returns None
Posted(r, parse_ok) ==
    IF r.exc # "none" THEN [r EXCEPT !.exc = "none", !.ret = [kind |-> "None"]]
    ELSE Answered(r, parse_ok)

SoapResult(r, inner, before, unsigned, body) ==
    [exc |-> r.exc, jar |-> r.jar, ret |-> r.ret, log |-> before \o r.log,
     inner |-> inner, unsigned |-> unsigned, signed |-> body]

Sent(r, parse_ok, before, unsigned, body) ==
    SoapResult(Posted(r, parse_ok), r.exc, before, unsigned, body)

\* lines 202-213 with the body that is posted
Post(j, before, unsigned, body, outcome, parse_ok) ==
    Sent(send(j, "POST", body, outcome), parse_ok, before, unsigned, body)

SoapRaised(j, exc, log, unsigned) ==
    [exc |-> exc, jar |-> j, ret |-> [kind |-> "none"], log |-> log,
     inner |-> "none", unsigned |-> unsigned, signed |-> <<>>]

\* Signing with the unsigned envelope posted after the signer has run
Signing_PostsUnsigned(j, request, soap_message, signer_ok, outcome, parse_ok) ==
    IF request = "text" THEN SoapRaised(j, "AttributeError", <<>>, soap_message)
    ELSE IF ~signer_ok
    THEN SoapRaised(j, "SigningError", <<SignCall(soap_message)>>, soap_message)
    ELSE Post(j, <<SignCall(soap_message)>>, soap_message, soap_message,
              outcome, parse_ok)

\* lines 195-199: with sign and a signer, the arguments are evaluated first
\* (request.id does not exist on a string: AttributeError), then the signer
\* runs; its failure propagates
Signing(j, request, soap_message, signer_ok, outcome, parse_ok) ==
    IF request = "text" THEN SoapRaised(j, "AttributeError", <<>>, soap_message)
    ELSE IF ~signer_ok
    THEN SoapRaised(j, "SigningError", <<SignCall(soap_message)>>, soap_message)
    ELSE Post(j, <<SignCall(soap_message)>>, soap_message, SignedForm(soap_message),
              outcome, parse_ok)

send_using_soap(j, signer, request, sign, signer_ok, outcome, parse_ok) ==
    IF sign /\ signer
    THEN Signing(j, request, Enveloped(request), signer_ok, outcome, parse_ok)
    ELSE Post(j, <<>>, Enveloped(request), Enveloped(request), outcome, parse_ok)

\* the responses the SOAP peer gives: no cookie, one cookie, one cookie
\* with an unparsable date
SoapOutcomes ==
    {Response(o, k) : o \in BOOLEAN,
                      k \in {<<>>, <<<<"sid", Plain>>>>, <<<<"sid", BadDate>>>>}}
    \cup {Failure}

SoapCalled(request, sign, signer_ok, outcome, r) ==
    /\ jar' = r.jar
    /\ last' = [NoCall EXCEPT !.op = "send_using_soap", !.kaka = outcome.kaka,
                              !.exc = r.exc, !.ret = r.ret, !.log = r.log,
                              !.inner = r.inner, !.truthy = outcome.ok,
                              !.request = request, !.sign = sign, !.signer = sec,
                              !.signer_ok = signer_ok,
                              !.unsigned = r.unsigned, !.signed = r.signed]

SendUsingSoap ==
    \E request \in {"text", "object"}, sign \in BOOLEAN, signer_ok \in BOOLEAN,
       outcome \in SoapOutcomes, parse_ok \in BOOLEAN :
        /\ SoapCalled(request, sign, signer_ok, outcome,
                      send_using_soap(jar, sec, request, sign, signer_ok, outcome, parse_ok))
        /\ UNCHANGED <<sec, now, codec>>

\* the owner of the HTTPBase sets or removes self.sec
ConfigureSigner ==
    /\ sec' = ~sec
    /\ UNCHANGED <<jar, now, last, codec>>

NextSoap == SendUsingSoap \/ ConfigureSigner

SpecSoap == Init /\ [][NextSoap]_vars


-----------------------------------------------------------------------------
(* Properties of the cookie adapter and of send, under Spec *)

\* the cookies of the call that `last` records
Batch == {last.kaka[i] : i \in 1..Len(last.kaka)}

\* the jar key a cookie of a batch goes to
KeyOf(e) == <<e[2].domain, e[2].path, e[1]>>

ZeroMaxAge(m) == m.max_age.int0 \/ m.max_age.s = <<"0">>

\* an expires or max-age string that matches neither date pattern
Malformed(m) ==
    \/ Truthy(m.expires) /\ since_epoch(m.expires).exc # "none"
    \/ MaxAgeTruthy(m) /\ ~ZeroMaxAge(m) /\ since_epoch(m.max_age.s).exc # "none"

\* a well-formed expires value that lies before the time t
ExpiredAt(m, t) ==
    /\ Truthy(m.expires)
    /\ since_epoch(m.expires).exc = "none"
    /\ since_epoch(m.expires).v < t

\* a cookie that asks for a record to be kept
Settable(m, t) == ~Malformed(m) /\ ~ZeroMaxAge(m) /\ ~ExpiredAt(m, t)

Holds(j, e) ==
    \E c \in j : Key(c) = KeyOf(e) /\ c.value = StripQuotes(e[2].coded_value)

\* C1: after set_cookie has been given a cookie whose max-age is zero, by a
\* caller or by send, the jar holds no record under that cookie's (domain,
\* path, name), whether or not it held one before, and nothing was raised
C1_ZeroMaxAgeRemoves ==
    (last.op \in {"set_cookie", "send"} /\ last.inner # "ConnectionError") =>
        \A e \in Batch :
            ZeroMaxAge(e[2]) => (last.exc = "none" /\ KeyOf(e) \notin Keys(jar))

\* C2: when a response carries a cookie whose expires or max-age string matches
\* neither date pattern, send still returns the response and every other
\* cookie of the batch that asks to be kept is in the jar
C2_FailsOpenPerCookie ==
    (last.op = "send" /\ last.inner # "ConnectionError"
        /\ \E e \in Batch : Malformed(e[2])) =>
        /\ last.exc = "none"
        /\ last.ret.kind = "response"
        /\ \A e \in Batch : Settable(e[2], now) => Holds(jar, e)

\* C3: a cookie (name, value) set by a response is what the next request
\* carries under that name, unless a record of another domain or path has the
\* same name; and no two records of the jar share (domain, path, name)
C3_SessionContinuity ==
    /\ last.op = "send" =>
          \A e \in Batch :
              (Settable(e[2], now)
                  /\ \A c \in jar : c.name = e[1] => Key(c) = KeyOf(e)) =>
                  \A a \in CookieArgs(jar) :
                      /\ a.present
                      /\ e[1] \in DOMAIN a.dict
                      /\ a.dict[e[1]] = StripQuotes(e[2].coded_value)
    /\ \A c1, c2 \in jar : Key(c1) = Key(c2) => c1 = c2

\* C4: every record of the jar has port_specified, domain_specified and
\* path_specified true exactly when port, domain and path are non-empty, and
\* domain_initial_dot true exactly when the domain starts with "."
C4_AttributePairing ==
    \A c \in jar :
        /\ c.port_specified <=> Truthy(c.port)
        /\ c.domain_specified <=> Truthy(c.domain)
        /\ c.path_specified <=> Truthy(c.path)
        /\ c.domain_initial_dot <=> (Truthy(c.domain) /\ StartsWith(c.domain, <<".">>))

C4_Witness ==
    /\ \E c \in jar : c.domain = DotDomain /\ c.domain_specified /\ c.domain_initial_dot
    /\ \E c \in jar : ~Truthy(c.domain) /\ ~c.domain_specified /\ ~c.domain_initial_dot

\* C5: a send that ingests a cookie whose expires time lies before the time of
\* the call leaves no record under that cookie's key
C5_NoExpiredStored ==
    [][(now' = now /\ last'.op = "send" /\ last'.inner # "ConnectionError") =>
          \A i \in 1..Len(last'.kaka) :
              ExpiredAt(last'.kaka[i][2], now) =>
                  KeyOf(last'.kaka[i]) \notin Keys(jar')]_vars

\* C9: a send whose request fails to connect raises ConnectionError after
\* exactly one request, returns nothing and leaves the jar as it was
C9_TransportFailure ==
    [][(last'.op = "send" /\ last'.exc = "ConnectionError") =>
          /\ jar' = jar
          /\ Len(last'.log) = 1
          /\ last'.log[1].ev = "http"
          /\ last'.ret.kind = "none"]_vars

C9_Witness == last.op = "send" /\ last.exc = "ConnectionError" /\ jar # {}

-----------------------------------------------------------------------------
(* Properties of the envelope codec, under SpecPack *)

\* the qualified name ElementTree writes for Body: the envelope namespace is
\* the first one it meets
BodyOpen == QName(<<NAMESPACE>>, BodyTag)

\* C6: for a text fragment and any number of header namespaces, the envelope
\* holds the fragment, without a leading XML declaration, as the only content
\* of Body, and neither the placeholder element nor a declaration of the
\* private namespace
C6_SpliceFidelity ==
    codec.op = "text" =>
        /\ Contains(codec.out, <<"<">> \o BodyOpen \o <<">">>
                                 \o Replace(codec.thingy, PREFIX, <<>>)
                                 \o <<"<", "/">> \o BodyOpen \o <<">">>)
        /\ ~Contains(codec.out, <<"F","u","d","d","l","e","M","u","d","d","l","e">>)
        /\ ~Contains(codec.out, <<"=", "\"">> \o DUMMY_NAMESPACE \o <<"\"">>)

RECURSIVE CountSubs(_)
\* the number of sub-elements of the Body parts of an envelope
CountSubs(parts) ==
    IF parts = <<>> THEN 0
    ELSE (IF Head(parts).tag = BodyTag THEN Len(Head(parts).children) ELSE 0)
         + CountSubs(Tail(parts))

HasPart(envelope, tag) ==
    \E i \in 1..Len(envelope.children) : envelope.children[i].tag = tag

HasUnfitBodySub(envelope) ==
    \E i \in 1..Len(envelope.children) :
        /\ envelope.children[i].tag = BodyTag
        /\ \E k \in 1..Len(envelope.children[i].children) :
               ~envelope.children[i].children[k].fits

\* C7: decode_soap raises when the root is not Envelope, when a Header shows
\* up and no header types were given, and when a Body sub-element cannot be
\* constructed; a body it returns comes from an envelope with exactly one
\* Body sub-element
C7_FailsClosed ==
    codec.op = "parse" =>
        /\ codec.envelope.tag # EnvelopeTag => codec.res.exc = "MalformedEnvelope"
        /\ (codec.envelope.tag = EnvelopeTag /\ HasPart(codec.envelope, HeaderTag)
               /\ codec.header_class = <<>>)
               => codec.res.exc \in {"UnexpectedHeader", "UnexpectedBodyType"}
        /\ (codec.envelope.tag = EnvelopeTag /\ HasUnfitBodySub(codec.envelope))
               => codec.res.exc \in {"UnexpectedHeader", "UnexpectedBodyType"}
        /\ (codec.res.exc = "none" /\ codec.res.body # None)
               => CountSubs(codec.envelope.children) = 1

-----------------------------------------------------------------------------
(* Properties of send_using_soap, under SpecSoap *)

\* a call of send_using_soap that got as far as send()
Reached == last.op = "send_using_soap" /\ Len(last.log) > 0
              /\ last.log[Len(last.log)].ev = "http"

\* C8: send_using_soap returns None exactly when send raised, False exactly
\* when send returned a falsy response, and otherwise the parser's result or
\* the parser's exception
C8_Trichotomy ==
    Reached =>
        /\ last.inner # "none" => (last.exc = "none" /\ last.ret.kind = "None")
        /\ (last.inner = "none" /\ ~last.truthy)
               => (last.exc = "none" /\ last.ret.kind = "False")
        /\ (last.inner = "none" /\ last.truthy)
               => \/ last.exc = "none" /\ last.ret.kind = "parsed"
                  \/ last.exc = "ParseError" /\ last.ret.kind = "none"
        /\ last.exc = "none" => last.ret.kind \in {"None", "False", "parsed"}

C8_Witness ==
    /\ Reached
    /\ last.inner = "ValueError"
    /\ last.exc = "none"
    /\ last.ret.kind = "None"

HttpEvents == {i \in 1..Len(last.log) : last.log[i].ev = "http"}

\* the order of the collaborator calls when signing was asked for and a
\* signer is configured
SignedOrder ==
    (last.op = "send_using_soap" /\ last.sign /\ last.signer) =>
        /\ Cardinality(HttpEvents) <= 1
        /\ last.unsigned = Enveloped(last.request)
        /\ \A i \in HttpEvents :
              /\ i = 2
              /\ last.log[1] = SignCall(last.unsigned)
              /\ last.log[i].method = "POST"
              /\ last.log[i].text = SignedForm(last.unsigned)
        /\ last.exc \in {"SigningError", "AttributeError"} => HttpEvents = {}
        /\ (last.request = "object" /\ ~last.signer_ok) =>
              /\ last.exc = "SigningError"
              /\ last.log = <<SignCall(last.unsigned)>>

\* C10: with sign set and a signer configured, the signer is called on the
\* unsigned envelope before any request, the one POST carries the signer's
\* output, and when the signer raises there is no request and the jar is
\* unchanged
C10_SignBeforeSend ==
    /\ []SignedOrder
    /\ [][(last'.op = "send_using_soap" /\ last'.sign /\ last'.signer
              /\ last'.exc \in {"SigningError", "AttributeError"}) => jar' = jar]_vars

C10_Witness ==
    /\ last.op = "send_using_soap" /\ last.sign /\ last.signer
    /\ Len(last.log) = 2
    /\ last.log[2].text = SignedForm(last.unsigned)
    /\ last.ret.kind = "parsed"
    /\ jar # {}

=============================================================================
